---------------------------- MODULE Spec2Model ----------------------------
(***************************************************************************)
(* A model of django_remote_forms/fields.py: the Remote*Field adapters     *)
(* that turn a Django form field into a dictionary, and the custom         *)
(* CommaSeparatedField.                                                    *)
(*                                                                         *)
(* Python values are tagged records [t |-> <type name>, v |-> <payload>].  *)
(* A Python str is a sequence of atoms (one-character TLA+ strings, plus   *)
(* a few multi-character atoms such as a class name or a strftime          *)
(* directive), so that split, join, concatenation and formatting are       *)
(* computed and not assumed.  A Python dict is a TLA+ function from key    *)
(* strings to values; the insertion order of the OrderedDict is not        *)
(* modelled.                                                               *)
(***************************************************************************)
EXTENDS Integers, Sequences, FiniteSets, TLC

VARIABLES field, decl, adapter, pc, arg, ret, log

vars == <<field, decl, adapter, pc, arg, ret, log>>

(***************************************************************************)
(* Bounds of the model.                                                    *)
(***************************************************************************)
\* the logger keeps at most this many warnings before the model stops serializing
MaxLog == 1
\* prepare_value is only called while the choice list is shorter than this
MaxChoices == 3

(***************************************************************************)
(* Python values.                                                          *)
(***************************************************************************)
PyNone == [t |-> "none", v |-> <<>>]
\* an int, held as its decimal numeral
PyInt(n) == [t |-> "int", v |-> n]
PyBool(b) == [t |-> "bool", v |-> b]
PyStr(s) == [t |-> "str", v |-> s]
PyList(s) == [t |-> "list", v |-> s]
PyTuple(s) == [t |-> "tuple", v |-> s]
PyDict(f) == [t |-> "dict", v |-> f]
\* a model instance (a record of the database) with primary key pk
Instance(pk) == [t |-> "instance", v |-> pk]
\* a callable of no arguments that returns r
Callable(r) == [t |-> "callable", v |-> r]
\* a form-field object
FieldObject(cls) == [t |-> "field", v |-> cls]
Date(Y, m, d) == [t |-> "date", v |-> [Y |-> Y, m |-> m, d |-> d]]
Time(H, M, S) == [t |-> "time", v |-> [H |-> H, M |-> M, S |-> S]]
DateTime(Y, m, d, H, M, S) ==
    [t |-> "datetime", v |-> [Y |-> Y, m |-> m, d |-> d, H |-> H, M |-> M, S |-> S]]

\* bool(x): Python's truth value of x
Truthy(x) ==
    CASE x.t = "none" -> FALSE
      [] x.t = "int" -> x.v # "0"
      [] x.t = "bool" -> x.v
      [] x.t \in {"str", "list", "tuple"} -> Len(x.v) > 0
      [] x.t = "dict" -> DOMAIN x.v # {}
      [] OTHER -> TRUE

\* a or b
Or(a, b) == IF Truthy(a) THEN a ELSE b

\* the classes x is an instance of: datetime.datetime is a subclass of datetime.date
ClassesOf(x) ==
    CASE x.t = "datetime" -> {"datetime", "date"}
      [] x.t = "bool" -> {"bool", "int"}
      [] OTHER -> {x.t}

\* isinstance(x, classes)
IsInstance(x, classes) == ClassesOf(x) \cap classes # {}

\* getattr(x, 'pk', x)
GetPk(x) == IF x.t = "instance" THEN x.v ELSE x

\* d.update(e) on dictionaries as functions
Update(d, e) == e @@ d

(***************************************************************************)
(* Strings.                                                                *)
(***************************************************************************)
Comma == ","

RECURSIVE Split(_)
\* s.split(',')
Split(s) ==
    IF \A i \in 1..Len(s) : s[i] # Comma
    THEN <<s>>
    ELSE LET i == CHOOSE k \in 1..Len(s) :
                      s[k] = Comma /\ \A j \in 1..(k - 1) : s[j] # Comma
         IN <<SubSeq(s, 1, i - 1)>> \o Split(SubSeq(s, i + 1, Len(s)))

RECURSIVE Join(_)
\* ','.join(l) for a list of atom sequences
Join(l) ==
    IF Len(l) = 0 THEN <<>>
    ELSE IF Len(l) = 1 THEN l[1]
    ELSE l[1] \o <<Comma>> \o Join(Tail(l))

\* str(x) for the values used as choice keys
ToStr(x) ==
    CASE x.t = "str" -> x
      [] x.t = "int" -> PyStr(<<x.v>>)
      [] x.t = "none" -> PyStr(<<"None">>)
      [] OTHER -> PyStr(<<"<object>">>)

\* f'{v} (Not valid)'
NotValidLabel(v) == v \o <<" (Not valid)">>

(***************************************************************************)
(* strftime and the process-wide default formats.                          *)
(***************************************************************************)
DATE_INPUT_FORMATS == PyList(<<PyStr(<<"%Y", "-", "%m", "-", "%d">>), PyStr(<<"%m", "/", "%d", "/", "%Y">>)>>)
TIME_INPUT_FORMATS == PyList(<<PyStr(<<"%H", ":", "%M", ":", "%S">>), PyStr(<<"%H", ":", "%M">>)>>)
DATETIME_INPUT_FORMATS ==
    PyList(<<PyStr(<<"%Y", "-", "%m", "-", "%d", " ", "%H", ":", "%M", ":", "%S">>),
           PyStr(<<"%Y", "-", "%m", "-", "%d">>)>>)

\* what one directive of a format renders for x; a date has no time of day
\* (midnight), a time has no date (1900-01-01)
Directive(x, a) ==
    CASE a = "%Y" -> IF x.t = "time" THEN "1900" ELSE x.v.Y
      [] a = "%m" -> IF x.t = "time" THEN "01" ELSE x.v.m
      [] a = "%d" -> IF x.t = "time" THEN "01" ELSE x.v.d
      [] a = "%H" -> IF x.t = "date" THEN "00" ELSE x.v.H
      [] a = "%M" -> IF x.t = "date" THEN "00" ELSE x.v.M
      [] a = "%S" -> IF x.t = "date" THEN "00" ELSE x.v.S
      [] OTHER -> a

\* x.strftime(fmt)
Strftime(x, fmt) == PyStr([i \in 1..Len(fmt.v) |-> Directive(x, fmt.v[i])])

(***************************************************************************)
(* The widgets module, as far as fields.py uses it: the names it defines   *)
(* and what an adapter of it returns.                                      *)
(***************************************************************************)
DEFAULT_REMOTE_WIDGET_CLASS_NAME == <<"DefaultRemoteInput">>

\* the attributes of the widgets module: one adapter per known widget class
\* and the default adapter
WidgetsModule ==
    {<<"Remote", "TextInput">>, <<"Remote", "Select">>, <<"Remote", "SelectMultiple">>,
     DEFAULT_REMOTE_WIDGET_CLASS_NAME}

\* remote_widget_class(widget, field_name=field_name).as_dict(); the entry
\* 'shape' stands for the entries that depend on the adapter class
RemoteWidget_as_dict(remote_widget_class, widget, field_name) ==
    PyDict([title |-> PyStr(widget), name |-> field_name,
            shape |-> PyStr(remote_widget_class)])

\* getattr(module, name): the attribute, or AttributeError
GetAttr(module, name) ==
    IF name \in module THEN [exc |-> "none", v |-> name]
    ELSE [exc |-> "AttributeError", v |-> name]

\* logger.warning('Error serializing %s: %s', remote_widget_class_name, str(e))
Warning(remote_widget_class_name, e) ==
    [level |-> "warning", name |-> remote_widget_class_name, error |-> e]

(***************************************************************************)
(* RemoteField and its subclasses.  self is the adapter object             *)
(* [field, form_initial_data, field_name]; as_dict returns                 *)
(* [exc, dict, warnings]: the exception it raised ("none" when it          *)
(* returned), the dictionary it returned and the warnings it logged.       *)
(***************************************************************************)
\* RemoteField.__init__
RemoteField_init(cls, f, form_initial_data, field_name) ==
    [cls |-> cls, field |-> f, form_initial_data |-> form_initial_data,
     field_name |-> field_name]

Returned(d, w) == [exc |-> "none", dict |-> d, warnings |-> w]
Raised(e, w) == [exc |-> e, dict |-> <<>>, warnings |-> w]

\* field_dict.update(e) / field_dict[k] = v on the dictionary super().as_dict() returned
Extend(r, e) == IF r.exc # "none" THEN r ELSE [r EXCEPT !.dict = Update(@, e)]

\* the lookup without its except clause: no warning, no default adapter
ResolveWidgetClass_NoFallback(widget) ==
    [lookup |-> GetAttr(WidgetsModule, <<"Remote">> \o widget), warnings |-> <<>>]

\* lines 43-48: the adapter class of the field's widget and the warnings logged
ResolveWidgetClass(widget) ==
    LET remote_widget_class_name == <<"Remote">> \o widget
        found == GetAttr(WidgetsModule, remote_widget_class_name)
    IN  IF found.exc = "none"
        THEN [lookup |-> found, warnings |-> <<>>]
        ELSE [lookup |-> GetAttr(WidgetsModule, DEFAULT_REMOTE_WIDGET_CLASS_NAME),
              warnings |-> <<Warning(remote_widget_class_name, found.exc)>>]

RemoteField_as_dict(self) ==
    LET f == self.field
        resolved == ResolveWidgetClass(f.widget)
        field_dict ==
            [title |-> PyStr(<<f.cls>>),
             required |-> f.required,
             label |-> f.label,
             initial |-> Or(self.form_initial_data, f.initial),
             help_text |-> f.help_text,
             disabled |-> f.disabled,
             error_messages |-> f.error_messages]
    IN  IF resolved.lookup.exc # "none"
        THEN Raised(resolved.lookup.exc, resolved.warnings)
        ELSE Returned(
                 Update(field_dict,
                        [widget |-> RemoteWidget_as_dict(resolved.lookup.v, f.widget,
                                                         self.field_name)]),
                 resolved.warnings)

RemoteCharField_as_dict(self) ==
    Extend(RemoteField_as_dict(self),
           [max_length |-> self.field.max_length, min_length |-> self.field.min_length])

RemoteIntegerField_as_dict(self) ==
    Extend(RemoteField_as_dict(self),
           [max_value |-> self.field.max_value, min_value |-> self.field.min_value])

\* RemoteDecimalField.as_dict with super(RemoteIntegerField, self): the base
\* class's as_dict is skipped
RemoteDecimalField_as_dict_SkipsBase(self) ==
    Extend(RemoteField_as_dict(self),
           [max_digits |-> self.field.max_digits,
            decimal_places |-> self.field.decimal_places])

RemoteDecimalField_as_dict(self) ==
    Extend(RemoteIntegerField_as_dict(self),
           [max_digits |-> self.field.max_digits,
            decimal_places |-> self.field.decimal_places])

\* lines 111-117: the formats used for the value when the field has none
DefaultFormats(input_formats, initial) ==
    IF Len(input_formats.v) # 0 THEN input_formats
    ELSE IF IsInstance(initial, {"date"}) THEN DATE_INPUT_FORMATS
    ELSE IF IsInstance(initial, {"time"}) THEN TIME_INPUT_FORMATS
    ELSE IF IsInstance(initial, {"datetime"}) THEN DATETIME_INPUT_FORMATS
    ELSE input_formats

RemoteTimeField_as_dict(self) ==
    LET r == Extend(RemoteField_as_dict(self), [input_formats |-> self.field.input_formats])
    IN  IF r.exc # "none" \/ ~Truthy(r.dict.initial) THEN r
        ELSE LET initial == IF r.dict.initial.t = "callable"
                            THEN r.dict.initial.v ELSE r.dict.initial
             IN  IF ~IsInstance(initial, {"datetime", "time", "date"})
                 THEN Extend(r, [initial |-> initial])
                 ELSE LET input_formats == DefaultFormats(r.dict.input_formats, initial)
                      IN  IF Len(input_formats.v) = 0
                          THEN Raised("IndexError", r.warnings)
                          ELSE Extend(r, [input_formats |-> input_formats,
                                          initial |-> Strftime(initial, input_formats.v[1])])

RemoteFileField_as_dict(self) ==
    Extend(RemoteField_as_dict(self), [max_length |-> self.field.max_length])

\* lines 183-188: one {'value': str(key), 'display': value} per choice
ChoiceDicts(choices) ==
    PyList([i \in 1..Len(choices) |->
               PyDict([value |-> ToStr(choices[i][1]), display |-> choices[i][2]])])

RemoteChoiceField_as_dict(self) ==
    Extend(RemoteField_as_dict(self), [choices |-> ChoiceDicts(self.field.choices)])

RemoteModelChoiceField_as_dict(self) ==
    LET r == RemoteChoiceField_as_dict(self)
    IN  IF r.exc # "none" THEN r ELSE Extend(r, [initial |-> GetPk(r.dict.initial)])

RemoteTypedChoiceField_as_dict(self) ==
    Extend(RemoteChoiceField_as_dict(self),
           [coerce |-> self.field.coerce, empty_value |-> self.field.empty_value])

\* lines 225-230: the option synthesized for one token of initial
InitialOption(f, initial_value) ==
    PyDict([value |-> PyStr(initial_value),
            display |-> PyStr(IF f.validate_choices
                              THEN NotValidLabel(initial_value) ELSE initial_value)])

RECURSIVE AppendInitialOptions(_, _, _)
\* lines 224-232: the loop over initial_list, appending to choices
AppendInitialOptions(f, initial_list, choices) ==
    IF Len(initial_list) = 0 THEN choices
    ELSE LET initial_option == InitialOption(f, Head(initial_list))
         IN  AppendInitialOptions(f, Tail(initial_list),
                 IF \E i \in 1..Len(choices) : choices[i] = initial_option
                 THEN choices ELSE Append(choices, initial_option))

RemoteCommaSeparatedField_as_dict(self) ==
    LET r == RemoteChoiceField_as_dict(self)
    IN  IF r.exc # "none" \/ ~Truthy(r.dict.initial) THEN r
        ELSE IF r.dict.initial.t # "str" THEN Raised("AttributeError", r.warnings)
        ELSE Extend(r, [choices |->
                 PyList(AppendInitialOptions(self.field, Split(r.dict.initial.v),
                                             r.dict.choices.v))])

\* line 241: [getattr(i, 'pk', i) for i in initial]
PkList(l) == [i \in 1..Len(l) |-> GetPk(l[i])]

RemoteModelMultipleChoiceField_as_dict(self) ==
    LET r == RemoteChoiceField_as_dict(self)
    IN  IF r.exc # "none" THEN r
        ELSE IF r.dict.initial.t = "list"
        THEN Extend(r, [initial |-> PyList(PkList(r.dict.initial.v))])
        ELSE Extend(r, [initial |-> GetPk(r.dict.initial)])

RemoteTypedMultipleChoiceField_as_dict(self) ==
    Extend(RemoteChoiceField_as_dict(self),
           [coerce |-> self.field.coerce, empty_value |-> self.field.empty_value])

RemoteComboField_as_dict(self) ==
    Extend(RemoteField_as_dict(self), [fields |-> self.field.fields])

RemoteMultiValueField_as_dict(self) ==
    Extend(RemoteField_as_dict(self), [fields |-> self.field.fields])

RemoteFilePathField_as_dict(self) ==
    Extend(RemoteChoiceField_as_dict(self),
           [path |-> self.field.path, match |-> self.field.match,
            recursive |-> self.field.recursive])

RemoteSplitDateTimeField_as_dict(self) ==
    Extend(RemoteMultiValueField_as_dict(self),
           [input_date_formats |-> self.field.input_date_formats,
            input_time_formats |-> self.field.input_time_formats])

\* the class statements: each adapter class's base class
Parent ==
    [RemoteCharField |-> "RemoteField", RemoteIntegerField |-> "RemoteField",
     RemoteFloatField |-> "RemoteIntegerField", RemoteDecimalField |-> "RemoteIntegerField",
     RemoteTimeField |-> "RemoteField", RemoteDateField |-> "RemoteTimeField",
     RemoteDateTimeField |-> "RemoteTimeField", RemoteRegexField |-> "RemoteCharField",
     RemoteEmailField |-> "RemoteCharField", RemoteFileField |-> "RemoteField",
     RemoteImageField |-> "RemoteFileField", RemoteURLField |-> "RemoteCharField",
     RemoteBooleanField |-> "RemoteField", RemoteNullBooleanField |-> "RemoteBooleanField",
     RemoteChoiceField |-> "RemoteField", RemoteModelChoiceField |-> "RemoteChoiceField",
     RemoteTypedChoiceField |-> "RemoteChoiceField",
     RemoteMultipleChoiceField |-> "RemoteChoiceField",
     RemoteCommaSeparatedField |-> "RemoteMultipleChoiceField",
     RemoteModelMultipleChoiceField |-> "RemoteMultipleChoiceField",
     RemoteTypedMultipleChoiceField |-> "RemoteMultipleChoiceField",
     RemoteComboField |-> "RemoteField", RemoteMultiValueField |-> "RemoteField",
     RemoteFilePathField |-> "RemoteChoiceField",
     RemoteSplitDateTimeField |-> "RemoteMultiValueField",
     RemoteIPAddressField |-> "RemoteCharField",
     RemoteGenericIPAddressField |-> "RemoteCharField",
     RemoteSlugField |-> "RemoteCharField"]

AdapterClasses == DOMAIN Parent \cup {"RemoteField"}

\* cls.as_dict(self): the method the class defines; a class whose as_dict only
\* returns super().as_dict() runs its base class's
as_dict(cls, self) ==
    CASE cls = "RemoteField" -> RemoteField_as_dict(self)
      [] cls \in {"RemoteCharField", "RemoteRegexField", "RemoteEmailField", "RemoteURLField",
                  "RemoteIPAddressField", "RemoteGenericIPAddressField", "RemoteSlugField"}
           -> RemoteCharField_as_dict(self)
      [] cls \in {"RemoteIntegerField", "RemoteFloatField"} -> RemoteIntegerField_as_dict(self)
      [] cls = "RemoteDecimalField" -> RemoteDecimalField_as_dict(self)
      [] cls \in {"RemoteTimeField", "RemoteDateField", "RemoteDateTimeField"}
           -> RemoteTimeField_as_dict(self)
      [] cls \in {"RemoteFileField", "RemoteImageField"} -> RemoteFileField_as_dict(self)
      [] cls \in {"RemoteBooleanField", "RemoteNullBooleanField"} -> RemoteField_as_dict(self)
      [] cls \in {"RemoteChoiceField", "RemoteMultipleChoiceField"}
           -> RemoteChoiceField_as_dict(self)
      [] cls = "RemoteModelChoiceField" -> RemoteModelChoiceField_as_dict(self)
      [] cls = "RemoteTypedChoiceField" -> RemoteTypedChoiceField_as_dict(self)
      [] cls = "RemoteCommaSeparatedField" -> RemoteCommaSeparatedField_as_dict(self)
      [] cls = "RemoteModelMultipleChoiceField" -> RemoteModelMultipleChoiceField_as_dict(self)
      [] cls = "RemoteTypedMultipleChoiceField" -> RemoteTypedMultipleChoiceField_as_dict(self)
      [] cls = "RemoteComboField" -> RemoteComboField_as_dict(self)
      [] cls = "RemoteMultiValueField" -> RemoteMultiValueField_as_dict(self)
      [] cls = "RemoteFilePathField" -> RemoteFilePathField_as_dict(self)
      [] cls = "RemoteSplitDateTimeField" -> RemoteSplitDateTimeField_as_dict(self)

(***************************************************************************)
(* CommaSeparatedField.  A field object is a record of its attributes;     *)
(* choices is a sequence of (key, label) pairs.                            *)
(***************************************************************************)
\* (v, v) in self.choices
InChoices(choices, pair) == \E i \in 1..Len(choices) : choices[i] = pair

RECURSIVE RegisterChoices_IgnoresFlag(_, _, _)
\* the comprehension without its test of self.validate_choices
RegisterChoices_IgnoresFlag(validate_choices, value_list, choices) ==
    IF Len(value_list) = 0 THEN choices
    ELSE LET v == Head(value_list)
         IN  RegisterChoices_IgnoresFlag(validate_choices, Tail(value_list),
                 IF Len(v) > 0 /\ ~InChoices(choices, <<PyStr(v), PyStr(v)>>)
                 THEN Append(choices, <<PyStr(v), PyStr(NotValidLabel(v))>>)
                 ELSE choices)

RECURSIVE RegisterChoices(_, _, _)
\* lines 331-332: the comprehension that appends to self.choices as it runs
RegisterChoices(validate_choices, value_list, choices) ==
    IF Len(value_list) = 0 THEN choices
    ELSE LET v == Head(value_list)
         IN  RegisterChoices(validate_choices, Tail(value_list),
                 IF validate_choices /\ Len(v) > 0
                    /\ ~InChoices(choices, <<PyStr(v), PyStr(v)>>)
                 THEN Append(choices, <<PyStr(v), PyStr(NotValidLabel(v))>>)
                 ELSE choices)

\* prepare_value(self, value): the field afterwards and the value returned
CommaSeparatedField_prepare_value(self, value) ==
    IF value.t = "str"
    THEN LET value_list == Split(value.v)
         IN  [self |-> [self EXCEPT !.choices =
                            RegisterChoices(self.validate_choices, value_list, @)],
              ret |-> PyList([i \in 1..Len(value_list) |-> PyStr(value_list[i])])]
    ELSE [self |-> self, ret |-> value]

\* super().valid_value(value): ChoiceField.valid_value, the membership test of
\* the framework (value == k or str(value) == str(k) for a choice (k, v))
ChoiceField_valid_value(self, value) ==
    \E i \in 1..Len(self.choices) :
        value = self.choices[i][1] \/ ToStr(value) = ToStr(self.choices[i][1])

CommaSeparatedField_valid_value(self, value) ==
    IF self.validate_choices THEN ChoiceField_valid_value(self, value) ELSE TRUE

\* super().clean(value): MultipleChoiceField's to_python, then validate; the
\* list of strings it returns, or the code of the ValidationError it raises
MultipleChoiceField_clean(self, value) ==
    IF ~Truthy(value)
    THEN IF self.required.v THEN [exc |-> "required", v |-> PyNone]
         ELSE [exc |-> "none", v |-> PyList(<<>>)]
    ELSE IF ~IsInstance(value, {"list", "tuple"})
    THEN [exc |-> "invalid_list", v |-> PyNone]
    ELSE LET strs == [i \in 1..Len(value.v) |-> ToStr(value.v[i])]
         IN  IF \E i \in 1..Len(strs) : ~CommaSeparatedField_valid_value(self, strs[i])
             THEN [exc |-> "invalid_choice", v |-> PyNone]
             ELSE [exc |-> "none", v |-> PyList(strs)]

\* clean without the join: the list super().clean returned
CommaSeparatedField_clean_NoJoin(self, value) == MultipleChoiceField_clean(self, value)

CommaSeparatedField_clean(self, value) ==
    LET cleaned == MultipleChoiceField_clean(self, value)
    IN  IF cleaned.exc # "none" THEN cleaned
        ELSE [exc |-> "none",
              v |-> PyStr(Join([i \in 1..Len(cleaned.v.v) |-> cleaned.v.v[i].v]))]

(***************************************************************************)
(* The fields and inputs the model runs the code on.                       *)
(***************************************************************************)
S(a) == PyStr(<<a>>)
A_B == PyStr(<<"a", Comma, "b">>)
X_Y == PyStr(<<"x", Comma, "y">>)
A_X == PyStr(<<"a", Comma, "x">>)
X_X == PyStr(<<"x", Comma, "x">>)
EmptyStr == PyStr(<<>>)

D1 == Date("2020", "01", "02")
T1 == Time("03", "04", "05")
DT1 == DateTime("2021", "06", "07", "08", "09", "10")
CustomFormats == PyList(<<PyStr(<<"%d", ".", "%m", ".", "%Y">>)>>)

Rec1 == Instance(PyInt("1"))
Rec2 == Instance(PyInt("2"))

\* a field object of class cls with the attributes every adapter reads
Field(cls, widget, initial, input_formats, choices, validate_choices, required) ==
    [cls |-> cls,
     required |-> PyBool(required),
     label |-> S("Label"),
     initial |-> initial,
     help_text |-> EmptyStr,
     disabled |-> PyBool(FALSE),
     error_messages |-> PyDict([required |-> S("This field is required.")]),
     widget |-> widget,
     max_length |-> PyInt("9"),
     min_length |-> PyNone,
     max_value |-> PyInt("9"),
     min_value |-> PyInt("0"),
     max_digits |-> PyInt("5"),
     decimal_places |-> PyInt("2"),
     input_formats |-> input_formats,
     choices |-> choices,
     coerce |-> [t |-> "callable", v |-> PyNone],
     empty_value |-> EmptyStr,
     fields |-> PyTuple(<<FieldObject("CharField"), FieldObject("EmailField")>>),
     path |-> S("/srv"),
     match |-> PyNone,
     recursive |-> PyBool(FALSE),
     input_date_formats |-> DATE_INPUT_FORMATS,
     input_time_formats |-> TIME_INPUT_FORMATS,
     validate_choices |-> validate_choices]

\* the field class each adapter class is constructed for
FieldClass ==
    [RemoteField |-> "Field", RemoteCharField |-> "CharField",
     RemoteIntegerField |-> "IntegerField", RemoteFloatField |-> "FloatField",
     RemoteDecimalField |-> "DecimalField", RemoteTimeField |-> "TimeField",
     RemoteDateField |-> "DateField", RemoteDateTimeField |-> "DateTimeField",
     RemoteRegexField |-> "RegexField", RemoteEmailField |-> "EmailField",
     RemoteFileField |-> "FileField", RemoteImageField |-> "ImageField",
     RemoteURLField |-> "URLField", RemoteBooleanField |-> "BooleanField",
     RemoteNullBooleanField |-> "NullBooleanField", RemoteChoiceField |-> "ChoiceField",
     RemoteModelChoiceField |-> "ModelChoiceField",
     RemoteTypedChoiceField |-> "TypedChoiceField",
     RemoteMultipleChoiceField |-> "MultipleChoiceField",
     RemoteCommaSeparatedField |-> "CommaSeparatedField",
     RemoteModelMultipleChoiceField |-> "ModelMultipleChoiceField",
     RemoteTypedMultipleChoiceField |-> "TypedMultipleChoiceField",
     RemoteComboField |-> "ComboField", RemoteMultiValueField |-> "MultiValueField",
     RemoteFilePathField |-> "FilePathField",
     RemoteSplitDateTimeField |-> "SplitDateTimeField",
     RemoteIPAddressField |-> "IPAddressField",
     RemoteGenericIPAddressField |-> "GenericIPAddressField",
     RemoteSlugField |-> "SlugField"]

TimeClasses == {"TimeField", "DateField", "DateTimeField"}
ChoiceClasses ==
    {"ChoiceField", "TypedChoiceField", "MultipleChoiceField", "TypedMultipleChoiceField",
     "FilePathField"}
ModelClasses == {"ModelChoiceField", "ModelMultipleChoiceField"}
CommaClasses == {"CommaSeparatedField"}
PlainClasses ==
    {FieldClass[a] : a \in DOMAIN FieldClass}
        \ (TimeClasses \cup ChoiceClasses \cup ModelClasses \cup CommaClasses)

TextInput == <<"TextInput">>
Select == <<"Select">>
SelectMultiple == <<"SelectMultiple">>
\* a widget class the widgets module has no adapter for
CustomWidget == <<"CustomWidget">>

NoFormats == PyList(<<>>)
NoChoices == <<>>
DeclaredAlpha == <<<<S("a"), S("Alpha")>>>>
DeclaredAB == <<<<S("a"), S("a")>>, <<S("b"), S("b")>>>>
DeclaredNumbers == <<<<PyInt("1"), S("One")>>, <<PyInt("2"), S("Two")>>>>

PlainFields ==
    {Field(c, w, i, NoFormats, NoChoices, TRUE, TRUE) :
        c \in PlainClasses, w \in {TextInput}, i \in {PyNone, PyInt("5"), S("a")}}
    \cup {Field(c, CustomWidget, i, NoFormats, NoChoices, TRUE, TRUE) :
        c \in {"Field", "CharField"}, i \in {PyNone, PyInt("5")}}

TimeFields ==
    {Field(c, TextInput, i, f, NoChoices, TRUE, TRUE) :
        c \in TimeClasses,
        i \in {PyNone, D1, T1, DT1, Callable(D1), Callable(DT1), Callable(S("a")), S("a")},
        f \in {NoFormats, CustomFormats}}

ChoiceFields ==
    {Field(c, w, i, NoFormats, ch, TRUE, TRUE) :
        c \in ChoiceClasses, w \in {Select}, i \in {PyNone, S("a")},
        ch \in {NoChoices, DeclaredAlpha, DeclaredNumbers}}
    \cup {Field("ChoiceField", CustomWidget, PyNone, NoFormats, DeclaredAlpha, TRUE, TRUE)}

ModelFields ==
    {Field("ModelChoiceField", Select, i, NoFormats, DeclaredNumbers, TRUE, TRUE) :
        i \in {PyNone, Rec1, PyInt("1")}}
    \cup {Field("ModelMultipleChoiceField", SelectMultiple, i, NoFormats, DeclaredNumbers,
                TRUE, TRUE) :
        i \in {PyNone, PyList(<<Rec1, Rec2>>), PyList(<<PyInt("1")>>),
               PyTuple(<<Rec1, Rec2>>)}}

CommaFields ==
    {Field("CommaSeparatedField", SelectMultiple, i, NoFormats, ch, vc, rq) :
        i \in {PyNone, S("a"), A_X, PyList(<<S("a")>>)},
        ch \in {NoChoices, DeclaredAlpha, DeclaredAB},
        vc \in BOOLEAN, rq \in BOOLEAN}

Fields == PlainFields \cup TimeFields \cup ChoiceFields \cup ModelFields \cup CommaFields

\* the form's initial data for a field: None when the form supplies none
Overrides(f) ==
    IF f.cls \in TimeClasses THEN {PyNone, DT1, Callable(T1)}
    ELSE IF f.cls = "ModelChoiceField" THEN {PyNone, Rec2, PyInt("2")}
    ELSE IF f.cls = "ModelMultipleChoiceField"
    THEN {PyNone, PyList(<<Rec2>>), PyList(<<PyInt("2")>>), PyTuple(<<Rec2>>)}
    ELSE IF f.cls \in CommaClasses THEN {PyNone, X_X, S("b"), EmptyStr}
    ELSE IF f.cls \in ChoiceClasses THEN {PyNone, S("b")}
    ELSE {PyNone, PyInt("0"), PyInt("7"), PyBool(FALSE), EmptyStr, PyList(<<>>)}

FieldNames == {S("name")}

\* the values prepare_value is called with
PrepareValues == {S("a"), S("x"), A_B, X_Y, EmptyStr, PyList(<<S("a")>>), PyNone}
\* the values valid_value is called with
CandidateValues == {S("a"), S("x"), S("y"), EmptyStr}
\* the values clean is called with
CleanValues == {PyNone, PyList(<<>>), PyList(<<S("a")>>), PyList(<<S("a"), S("x")>>), S("a")}

(***************************************************************************)
(* The state machine: one field object; adapters are constructed for it     *)
(* and asked for their dictionary, and the methods of a                    *)
(* CommaSeparatedField are called on it.                                   *)
(***************************************************************************)
NoAdapter == [cls |-> "none", form_initial_data |-> PyNone, field_name |-> PyNone]

\* the adapter object: its attributes and the field it refers to
Self == [cls |-> adapter.cls, field |-> field,
         form_initial_data |-> adapter.form_initial_data,
         field_name |-> adapter.field_name]

Init ==
    /\ field \in Fields
    /\ decl = field.choices
    /\ adapter = NoAdapter
    /\ pc = "idle"
    /\ arg = PyNone
    /\ ret = PyNone
    /\ log = <<>>

\* RemoteXField(field, form_initial_data, field_name)
Construct(cls, form_initial_data, field_name) ==
    /\ FieldClass[cls] = field.cls
    /\ adapter' = [cls |-> cls, form_initial_data |-> form_initial_data,
                   field_name |-> field_name]
    /\ pc' = "constructed"
    /\ arg' = PyNone
    /\ ret' = PyNone
    /\ UNCHANGED <<field, decl, log>>

\* adapter.as_dict()
AsDict ==
    /\ pc = "constructed"
    /\ Len(log) < MaxLog
    /\ LET r == as_dict(adapter.cls, Self)
       IN  /\ ret' = r
           /\ log' = log \o r.warnings
    /\ pc' = "returned"
    /\ UNCHANGED <<field, decl, adapter, arg>>

\* field.prepare_value(value)
PrepareValue(value) ==
    /\ field.cls = "CommaSeparatedField"
    /\ pc # "constructed"
    /\ Len(field.choices) < MaxChoices
    /\ LET r == CommaSeparatedField_prepare_value(field, value)
       IN  /\ field' = r.self
           /\ ret' = r.ret
    /\ arg' = value
    /\ pc' = "prepared"
    /\ adapter' = NoAdapter
    /\ UNCHANGED <<decl, log>>

\* field.valid_value(value)
ValidValue(value) ==
    /\ field.cls = "CommaSeparatedField"
    /\ pc # "constructed"
    /\ ret' = PyBool(CommaSeparatedField_valid_value(field, value))
    /\ arg' = value
    /\ pc' = "validated"
    /\ adapter' = NoAdapter
    /\ UNCHANGED <<field, decl, log>>

\* field.clean(value)
Clean(value) ==
    /\ field.cls = "CommaSeparatedField"
    /\ pc # "constructed"
    /\ ret' = CommaSeparatedField_clean(field, value)
    /\ arg' = value
    /\ pc' = "cleaned"
    /\ adapter' = NoAdapter
    /\ UNCHANGED <<field, decl, log>>

\* field.clean(field.prepare_value(value)): clean on what prepare_value returned
CleanPrepared ==
    /\ pc = "prepared"
    /\ ret' = CommaSeparatedField_clean(field, ret)
    /\ pc' = "roundtrip"
    /\ UNCHANGED <<field, decl, adapter, arg, log>>

Next ==
    \/ \E cls \in AdapterClasses, o \in Overrides(field), n \in FieldNames :
           Construct(cls, o, n)
    \/ AsDict
    \/ \E value \in PrepareValues : PrepareValue(value)
    \/ \E value \in CandidateValues : ValidValue(value)
    \/ \E value \in CleanValues : Clean(value)
    \/ CleanPrepared

Spec == Init /\ [][Next]_vars

(***************************************************************************)
(* The claims.                                                             *)
(***************************************************************************)
BaseKeys ==
    {"title", "required", "label", "initial", "help_text", "disabled", "error_messages",
     "widget"}

RECURSIVE Ancestors(_)
\* the adapter classes cls inherits from
Ancestors(cls) ==
    IF cls = "RemoteField" THEN {} ELSE {Parent[cls]} \cup Ancestors(Parent[cls])

\* the value the adapter's as_dict starts from when the form's initial data,
\* if supplied, takes precedence
ExpectedInitial == 
    IF adapter.form_initial_data # PyNone THEN adapter.form_initial_data ELSE field.initial

\* ExpectedInitial, invoked if it is callable
ResolvedInitial == IF ExpectedInitial.t = "callable" THEN ExpectedInitial.v ELSE ExpectedInitial

\* C1: the dictionary an adapter returns has the eight base keys and every
\* key that the as_dict of each class it inherits from returns for the same
\* field.
C1_KeysOnlyAdded ==
    (pc = "returned" /\ ret.exc = "none") =>
        /\ BaseKeys \subseteq DOMAIN ret.dict
        /\ \A p \in Ancestors(adapter.cls) :
               LET r == as_dict(p, Self)
               IN  r.exc = "none" /\ DOMAIN r.dict \subseteq DOMAIN ret.dict

\* a decimal adapter returned the keys of its own class and of its base class
C1_Witness ==
    /\ pc = "returned"
    /\ adapter.cls = "RemoteDecimalField"
    /\ ret.exc = "none"
    /\ {"max_digits", "decimal_places", "max_value", "min_value"} \subseteq DOMAIN ret.dict

\* C2: 'initial' of the base adapter's dictionary is the form's initial data
\* whenever that is supplied (also when it is falsy), and the field's own
\* initial only when none is supplied.
C2_OverrideTakesPrecedence ==
    (pc = "returned" /\ field.cls \in PlainClasses /\ ret.exc = "none") =>
        ret.dict.initial = ExpectedInitial

\* C3: resolving the widget's adapter never raises; when the widgets module
\* has no 'Remote' + <widget class name>, one warning is logged and 'widget'
\* is the default adapter's dictionary; when it has, that adapter is used and
\* nothing is logged.
C3_WidgetFallback ==
    [][(pc = "constructed" /\ pc' = "returned") =>
          LET name == <<"Remote">> \o field.widget
              missing == name \notin WidgetsModule
              used == IF missing THEN DEFAULT_REMOTE_WIDGET_CLASS_NAME ELSE name
          IN  /\ RemoteField_as_dict(Self).exc = "none"
              /\ ret'.exc # "none" => adapter.cls = "RemoteCommaSeparatedField"
              /\ ret'.exc = "none" =>
                     ret'.dict.widget =
                         RemoteWidget_as_dict(used, field.widget, adapter.field_name)
              /\ log' = IF missing THEN Append(log, Warning(name, "AttributeError"))
                        ELSE log]_vars

\* an adapter of a field whose widget has no adapter returned, with one warning logged
C3_Witness ==
    /\ pc = "returned"
    /\ field.widget = CustomWidget
    /\ ret.exc = "none"
    /\ ret.dict.widget.v.shape = PyStr(DEFAULT_REMOTE_WIDGET_CLASS_NAME)
    /\ Len(log) = 1

\* the process-wide default formats for a value of each kind
DefaultsOfKind(x) ==
    CASE x.t = "date" -> DATE_INPUT_FORMATS
      [] x.t = "time" -> TIME_INPUT_FORMATS
      [] x.t = "datetime" -> DATETIME_INPUT_FORMATS

\* C4: a time-family adapter of a field without input_formats whose initial
\* value is a date, time or datetime returns the default formats of the
\* value's kind as 'input_formats' and the value formatted with the first of
\* them as 'initial'.
C4_DefaultFormatsByKind ==
    (/\ pc = "returned"
     /\ field.cls \in TimeClasses
     /\ Len(field.input_formats.v) = 0
     /\ ResolvedInitial.t \in {"date", "time", "datetime"}) =>
        /\ ret.exc = "none"
        /\ ret.dict.input_formats = DefaultsOfKind(ResolvedInitial)
        /\ ret.dict.initial = Strftime(ResolvedInitial, DefaultsOfKind(ResolvedInitial).v[1])

\* C5: a model-backed adapter replaces an initial value that has a pk by the
\* pk and passes any other through; the multiple-choice one does so for each
\* element of an initial that is a collection, list or not.
C5_PkElementwise ==
    (pc = "returned" /\ field.cls \in ModelClasses /\ ret.exc = "none") =>
        IF field.cls = "ModelMultipleChoiceField" /\ ExpectedInitial.t \in {"list", "tuple"}
        THEN /\ ret.dict.initial.t \in {"list", "tuple"}
             /\ ret.dict.initial.v = PkList(ExpectedInitial.v)
        ELSE ret.dict.initial = GetPk(ExpectedInitial)

RECURSIVE ExpectedOptions(_, _, _)
\* choices with one entry appended for each token that is the value of none
ExpectedOptions(f, tokens, choices) ==
    IF Len(tokens) = 0 THEN choices
    ELSE ExpectedOptions(f, Tail(tokens),
             IF \E i \in 1..Len(choices) : choices[i].v.value = PyStr(Head(tokens))
             THEN choices ELSE Append(choices, InitialOption(f, Head(tokens))))

\* C6: the comma-separated adapter appends one synthesized entry for each
\* token of a non-empty initial string that is not the value of a choice
\* already there, and none for a token that is.
C6_OnlyUndeclaredTokens ==
    (/\ pc = "returned"
     /\ adapter.cls = "RemoteCommaSeparatedField"
     /\ ExpectedInitial.t = "str"
     /\ Len(ExpectedInitial.v) > 0) =>
        /\ ret.exc = "none"
        /\ ret.dict.choices.v =
               ExpectedOptions(field, Split(ExpectedInitial.v), ChoiceDicts(field.choices).v)

\* the keys of a choice list
Keys(choices) == {choices[i][1] : i \in 1..Len(choices)}

\* C7, as stated: with validate_choices false, prepare_value("x,y") registers
\* the choices ("x", "x") and ("y", "y").
C7_RegistersRawLabels ==
    (/\ pc = "prepared"
     /\ ~field.validate_choices
     /\ arg = X_Y
     /\ Keys(decl) \cap {S("x"), S("y")} = {}) =>
        /\ InChoices(field.choices, <<S("x"), S("x")>>)
        /\ InChoices(field.choices, <<S("y"), S("y")>>)

\* C7, amended: with validate_choices false the choice list stays the one the
\* field was constructed with, prepare_value of a string returns its tokens,
\* and valid_value returns true.
C7_NothingRegistered ==
    (field.cls = "CommaSeparatedField" /\ ~field.validate_choices) =>
        /\ field.choices = decl
        /\ (pc = "prepared" /\ arg.t = "str") =>
               ret = PyList([i \in 1..Len(Split(arg.v)) |-> PyStr(Split(arg.v)[i])])
        /\ pc = "validated" => ret = PyBool(TRUE)

\* prepare_value("x,y") returned on a field that does not validate choices
C7_Witness ==
    /\ pc = "prepared"
    /\ ~field.validate_choices
    /\ arg = X_Y
    /\ Keys(decl) \cap {S("x"), S("y")} = {}
    /\ ret = PyList(<<S("x"), S("y")>>)

\* every token of the string s is non-empty and the key of a declared choice
AllDeclared(s) ==
    \A i \in 1..Len(Split(s.v)) :
        Len(Split(s.v)[i]) > 0 /\ PyStr(Split(s.v)[i]) \in Keys(decl)

\* C8: clean(prepare_value(s)) returns the string s when every token of s is
\* non-empty and a declared choice.
C8_RoundTrip ==
    (pc = "roundtrip" /\ arg.t = "str" /\ AllDeclared(arg)) =>
        ret = [exc |-> "none", v |-> arg]

\* the round trip of "a,b" on a field that declares a and b
C8_Witness ==
    /\ pc = "roundtrip"
    /\ arg = A_B
    /\ AllDeclared(arg)
    /\ ret.exc = "none"
    /\ ret.v = A_B

RECURSIVE IsPlain(_)
\* x is a string, a number, a boolean, None or a container of such values
IsPlain(x) ==
    CASE x.t \in {"none", "int", "bool", "str"} -> TRUE
      [] x.t \in {"list", "tuple"} -> \A i \in 1..Len(x.v) : IsPlain(x.v[i])
      [] x.t = "dict" -> \A k \in DOMAIN x.v : IsPlain(x.v[k])
      [] OTHER -> FALSE

\* C9: every value of the dictionary as_dict returns is plain.
C9_PlainValues ==
    (pc = "returned" /\ ret.exc = "none") =>
        \A k \in DOMAIN ret.dict : IsPlain(ret.dict[k])

\* C10: with validate_choices true the choice list holds at most one entry
\* per key, whatever prepare_value was called with.
C10_OneEntryPerKey ==
    (field.cls = "CommaSeparatedField" /\ field.validate_choices) =>
        \A i, j \in 1..Len(field.choices) :
            field.choices[i][1] = field.choices[j][1] => i = j

=============================================================================
